---- MODULE Spec2Model ----
(***************************************************************************)
(* State-machine model of StreamDispatcher                                 *)
(* (src/src/VoiceInterface/BasicStreamDispatcher.ts).                      *)
(*                                                                         *)
(* The dispatcher drives two objects of @discordjs/voice, a                *)
(* VoiceConnection and an AudioPlayer.  Both notify their listeners from   *)
(* inside their state setter, after the new state has been stored, so a    *)
(* listener runs synchronously up to its first await; the code after an    *)
(* await runs when the awaited event or timer fires.  One action of this   *)
(* module is one such run-to-completion step of the event loop.            *)
(*                                                                         *)
(* The operators below are functions from a snapshot d of the whole state  *)
(* to the snapshot after the call, so that nested calls (destroy() inside  *)
(* a stateChange listener, which notifies the same listener again) compose *)
(* the way the synchronous JavaScript calls do.                            *)
(***************************************************************************)
EXTENDS Integers, Sequences, FiniteSets, TLC

---------------------------------------------------------------------------
(* Program constants *)

\* rejoinAttempts < 5
RejoinLimit == 5
\* (rejoinAttempts + 1) * 5000
BackoffStepMs == 5000
\* entersState(voiceConnection, Connecting, 5000)
ConnectingTimeoutMs == 5000
\* entersState(voiceConnection, Ready, 20000) in the stateChange listener
ReadyTimeoutMs == 20000
\* entersState(voiceConnection, Ready, 20000) in playStream
PlayTimeoutMs == 20000
\* newState.closeCode === 4014
MovedCloseCode == 4014
\* the volume reported when there is no resource
DefaultVolume == 100

(* Bounds of the model *)

\* backoff delays that may be pending at once
MaxBackoffs == 2
\* 5-second waits for Connecting that may be pending at once
MaxConnectingWaits == 1
\* playStream calls that may be suspended at once
MaxPlayWaits == 1
\* audio resources alive at once
MaxRes == 2
\* audio frames counted in a resource's playbackDuration
MaxFrames == 1
\* events remembered in the history of emitted events
MaxEvents == 3

\* One step of the clock: every timeout of the program is a multiple of it.
TickMs == BackoffStepMs

---------------------------------------------------------------------------
(* Values *)

\* VoiceConnectionStatus
Signalling == "signalling"
Connecting == "connecting"
Ready == "ready"
Disconnected == "disconnected"
Destroyed == "destroyed"
ConnStatuses == {Signalling, Connecting, Ready, Disconnected, Destroyed}

\* AudioPlayerStatus
Idle == "idle"
Buffering == "buffering"
Playing == "playing"
Paused == "paused"
AutoPaused == "autopaused"
PlayerStatuses == {Idle, Buffering, Playing, Paused, AutoPaused}

\* What a Disconnected state carries: VoiceConnectionDisconnectReason and
\* the close code.  Code 0 stands for "no close code".
WebSocketClose == "WebSocketClose"
OtherReason == "AdapterUnavailable"
NoReason == [reason |-> "none", closeCode |-> 0]
DisconnectReasons ==
    { [reason |-> WebSocketClose, closeCode |-> MovedCloseCode],
      [reason |-> WebSocketClose, closeCode |-> MovedCloseCode + 1],
      [reason |-> OtherReason, closeCode |-> 0] }

\* audioResource?: AudioResource<Track>; 0 is null/undefined
NoResource == 0
ResourceIds == 1..MaxRes

\* JavaScript numbers handed to setVolume: <<kind, n>>
Num(n) == <<"num", n>>
NaN == <<"nan", 0>>
PosInf == <<"inf", 1>>
NegInf == <<"inf", -1>>
VolumeInputs == {NaN, NegInf, PosInf, Num(-1), Num(0), Num(100)}

\* JavaScript isNaN, < and > on these numbers
IsNaN(v) == v[1] = "nan"
JsLt(a, b) ==
    /\ ~IsNaN(a) /\ ~IsNaN(b)
    /\ \/ a[1] = "num" /\ b[1] = "num" /\ a[2] < b[2]
       \/ a[1] = "inf" /\ a[2] < 0 /\ b # a
       \/ b[1] = "inf" /\ b[2] > 0 /\ a # b
JsGt(a, b) == JsLt(b, a)

\* A resource as created by createAudioResource(..., inlineVolume: true):
\* not yet handed to a player, volume 1 (100 in hundredths), nothing played.
FreshResource ==
    [stage |-> "fresh", volume |-> Num(DefaultVolume), playbackDuration |-> 0]
FreeSlot ==
    [stage |-> "free", volume |-> Num(DefaultVolume), playbackDuration |-> 0]

---------------------------------------------------------------------------
(* State *)

VARIABLES
    voiceConnection,    \* [status, reason, rejoinAttempts]: this.voiceConnection
    audioPlayer,        \* [status, resource]: this.audioPlayer.state
    audioResource,      \* this.audioResource: NoResource or a resource id
    readyLock,          \* this.readyLock
    resources,          \* the AudioResource objects, by id
    connectingWaits,    \* suspended listeners of the 4014 path: ms left of each
    backoffs,           \* suspended listeners in Util.wait: ms left of each
    readyWaits,         \* suspended listeners waiting for Ready: ms left of each
    playWaits,          \* suspended playStream calls: [resource, remaining]
    last,               \* what the last step did (calls made, events emitted...)
    events,             \* history: the events emitted while the scenario runs
    scenario,           \* history: progress through the play-through scenario
    rejoinsSinceReady   \* history: rejoin() calls on a live connection since
                        \* construction or the last Ready

vars ==
    << voiceConnection, audioPlayer, audioResource, readyLock, resources,
       connectingWaits, backoffs, readyWaits, playWaits, last, events,
       scenario, rejoinsSinceReady >>

\* The snapshot an operation starts from.  op names the operation; stopNow
\* and adapterOk are the two choices the library makes that its caller
\* cannot see: whether stop() reaches Idle at once or only after the
\* resource's silence padding, and whether the adapter accepts the payload
\* rejoin() sends.
Begin(op, stopNow, adapterOk) ==
    [ conn |-> voiceConnection, player |-> audioPlayer,
      audioResource |-> audioResource, readyLock |-> readyLock,
      res |-> resources, connectingWaits |-> connectingWaits,
      backoffs |-> backoffs, readyWaits |-> readyWaits,
      playWaits |-> playWaits,
      op |-> op, calls |-> <<>>, emitted |-> <<>>, raised |-> "none",
      result |-> "none", notes |-> <<>>, connNotes |-> <<>>,
      stopNow |-> stopNow, adapterOk |-> adapterOk ]

Call(d, name) == [d EXCEPT !.calls = Append(@, name)]
Throw(d, error) == [d EXCEPT !.raised = error]
Return(d, value) == [d EXCEPT !.result = value]

---------------------------------------------------------------------------
(* The dispatcher's queries *)

\* get paused()
paused(d) == d.player.status \in {AutoPaused, Paused}

\* get status()
status(d) == d.player.status

\* get streamTime()
streamTime(d) ==
    IF d.audioResource = NoResource THEN 0
    ELSE d.res[d.audioResource].playbackDuration

---------------------------------------------------------------------------
(* The audio player *)

\* this.emit("finish") / this.emit("start")
Emit(d, event) == [d EXCEPT !.emitted = Append(@, event)]

\* A bug Finish could have: finish is emitted, the resource is kept.
FinishKeepingResource(d) == Emit(d, "finish")

\* The body of the Idle branch: drop the resource and emit finish.
Finish(d) == Emit([d EXCEPT !.audioResource = NoResource], "finish")

\* A bug PlayerStateChange could have: start on every status but Idle.
PlayerStateChangeEagerStart(d, oldStatus, newStatus) ==
    IF newStatus = Idle /\ oldStatus # Idle
    THEN IF ~paused(d) THEN Finish(d) ELSE d
    ELSE IF newStatus # Idle
         THEN IF ~paused(d) THEN Emit(d, "start") ELSE d
         ELSE d

\* this.audioPlayer.on("stateChange", (oldState, newState) => ...).  The
\* player has stored newState when it notifies, so paused(d) reads the new
\* status.
PlayerStateChange(d, oldStatus, newStatus) ==
    IF newStatus = Idle /\ oldStatus # Idle
    THEN IF ~paused(d) THEN Finish(d) ELSE d
    ELSE IF newStatus = Playing
         THEN IF ~paused(d) THEN Emit(d, "start") ELSE d
         ELSE d

\* AudioPlayer's state setter: a resource the player lets go of is
\* destroyed (ended); the new state is stored; stateChange is emitted.
SetPlayerState(d, newStatus, newResource) ==
    LET old == d.player
        dropped == old.status # Idle /\ old.resource # newResource
        d1 == [d EXCEPT
                 !.res = IF dropped
                         THEN [@ EXCEPT ![old.resource].stage = "ended"]
                         ELSE @,
                 !.player = [status |-> newStatus, resource |-> newResource],
                 !.notes = Append(@, <<old.status, newStatus>>)]
    IN  PlayerStateChange(d1, old.status, newStatus)

\* AudioPlayer.play(resource)
PlayerPlay(d, r) ==
    LET c == Call(d, "player.play") IN
    IF r = NoResource THEN Throw(c, "TypeError")
    ELSE IF c.res[r].stage = "ended" THEN Throw(c, "ResourceEnded")
    ELSE IF c.res[r].stage = "loaded" THEN c
    ELSE SetPlayerState([c EXCEPT !.res[r].stage = "loaded"], Buffering, r)

\* AudioPlayer.stop()
PlayerStop(d) ==
    LET c == Call(d, "player.stop") IN
    IF c.player.status = Idle \/ ~c.stopNow THEN c
    ELSE SetPlayerState(c, Idle, NoResource)

\* AudioPlayer.pause(interpolateSilence)
PlayerPause(d) ==
    LET c == Call(d, "player.pause") IN
    IF c.player.status # Playing THEN Return(c, "false")
    ELSE Return(SetPlayerState(c, Paused, c.player.resource), "true")

\* AudioPlayer.unpause()
PlayerUnpause(d) ==
    LET c == Call(d, "player.unpause") IN
    IF c.player.status # Paused THEN Return(c, "false")
    ELSE Return(SetPlayerState(c, Playing, c.player.resource), "true")

---------------------------------------------------------------------------
(* The dispatcher's playback operations *)

\* end()
end(d) == PlayerStop(d)

\* pause(interpolateSilence)
pause(d) == PlayerPause(d)

\* resume()
resume(d) == PlayerUnpause(d)

\* The slot createAudioResource puts the new resource in: a free one, or
\* else one nobody refers to any more (created, replaced, never played).
Referenced(d) ==
    {d.audioResource, d.player.resource}
        \cup {d.playWaits[i].resource : i \in 1..Len(d.playWaits)}
FreeIds(d) == {r \in ResourceIds : d.res[r].stage = "free"}
UnusedIds(d) ==
    IF FreeIds(d) # {} THEN FreeIds(d) ELSE ResourceIds \ Referenced(d)
NewId(d) == CHOOSE r \in UnusedIds(d) : \A q \in UnusedIds(d) : r <= q

\* createStream(src, ops)
createStream(d) ==
    LET r == NewId(d) IN
    Return([d EXCEPT !.res[r] = FreshResource, !.audioResource = r],
           "resource")

\* setVolume's guard: the cases it answers false to
VolumeRejected(d, value) ==
    \/ d.audioResource = NoResource
    \/ IsNaN(value)
    \/ JsLt(value, Num(0))
    \/ JsGt(value, PosInf)

\* setVolume(value): volume.setVolumeLogarithmic(value / 100); the model
\* keeps a resource's volume in hundredths, that is as value itself.
setVolume(d, value) ==
    IF VolumeRejected(d, value) THEN Return(d, "false")
    ELSE Return([Call(d, "volume.setVolumeLogarithmic")
                    EXCEPT !.res[d.audioResource].volume = value], "true")

---------------------------------------------------------------------------
(* The voice connection *)

\* A bug ConnDestroyed could have: a paused player is left alone.
ConnDestroyedUnlessPaused(d) == IF paused(d) THEN d ELSE end(d)

\* The listener's branch for newState.status === Destroyed
ConnDestroyed(d) == end(d)

\* VoiceConnection.destroy(): throws on a destroyed connection, else stores
\* the Destroyed state and notifies the listener.
Destroy(d) ==
    LET c == Call(d, "conn.destroy") IN
    IF c.conn.status = Destroyed THEN Throw(c, "AlreadyDestroyed")
    ELSE ConnDestroyed(
             [c EXCEPT !.connNotes = Append(@, <<c.conn.status, Destroyed>>),
                       !.conn.status = Destroyed,
                       !.conn.reason = NoReason])

\* A bug disconnect could have: destroy() outside any try.
disconnectUncaught(d) == Destroy(d)

\* disconnect(): try { destroy() } catch {}
disconnect(d) == [Destroy(d) EXCEPT !.raised = d.raised]

\* entersState(target, status, timeout): settled at once when the target is
\* in that status, else a wait that the status's event or the timeout ends.
EntersStateConnecting(d) ==
    IF d.conn.status = Connecting THEN d
    ELSE [d EXCEPT !.connectingWaits = Append(@, ConnectingTimeoutMs)]

EntersStateReady(d) ==
    IF d.conn.status = Ready
    THEN [d EXCEPT !.readyLock = FALSE]
    ELSE [d EXCEPT !.readyWaits = Append(@, ReadyTimeoutMs)]

\* Util.wait(ms): the listener resumes (BackoffDone) ms later.
Wait(d, ms) == [d EXCEPT !.backoffs = Append(@, ms)]

\* A bug BackoffDelay could have: the same delay before every retry.
BackoffDelayFlat(rejoinAttempts) == BackoffStepMs

\* (this.voiceConnection.rejoinAttempts + 1) * 5000
BackoffDelay(rejoinAttempts) == (rejoinAttempts + 1) * BackoffStepMs

\* newState.reason === WebSocketClose && newState.closeCode === 4014
IsMoved(newState) ==
    /\ newState.reason.reason = WebSocketClose
    /\ newState.reason.closeCode = MovedCloseCode

\* this.voiceConnection.rejoinAttempts < 5
MayRetry(d) == d.conn.rejoinAttempts < RejoinLimit

\* A bug ConnStateChange could have: the retry counter is looked at before
\* the reason of the disconnect.
ConnStateChangeCounterFirst(d, newState) ==
    IF newState.status = Disconnected
    THEN IF MayRetry(d)
         THEN Wait(d, BackoffDelay(d.conn.rejoinAttempts))
         ELSE IF IsMoved(newState) THEN EntersStateConnecting(d)
              ELSE Destroy(d)
    ELSE IF newState.status = Destroyed THEN ConnDestroyed(d)
    ELSE IF ~d.readyLock /\ newState.status \in {Connecting, Signalling}
         THEN EntersStateReady([d EXCEPT !.readyLock = TRUE])
         ELSE d

\* A bug ConnStateChange could have: the lock is set but never looked at.
ConnStateChangeUnguarded(d, newState) ==
    IF newState.status = Disconnected
    THEN IF IsMoved(newState) THEN EntersStateConnecting(d)
         ELSE IF MayRetry(d)
              THEN Wait(d, BackoffDelay(d.conn.rejoinAttempts))
              ELSE Destroy(d)
    ELSE IF newState.status = Destroyed THEN ConnDestroyed(d)
    ELSE IF newState.status \in {Connecting, Signalling}
         THEN EntersStateReady([d EXCEPT !.readyLock = TRUE])
         ELSE d

\* this.voiceConnection.on("stateChange", async (_, newState) => ...) up to
\* its first await.  What follows an await is ConnectingWaitTimeout,
\* BackoffDone, ReadyWaitTimeout and the Ready case of Settle.
ConnStateChange(d, newState) ==
    IF newState.status = Disconnected
    THEN IF IsMoved(newState) THEN EntersStateConnecting(d)
         ELSE IF MayRetry(d)
              THEN Wait(d, BackoffDelay(d.conn.rejoinAttempts))
              ELSE Destroy(d)
    ELSE IF newState.status = Destroyed THEN ConnDestroyed(d)
    ELSE IF ~d.readyLock /\ newState.status \in {Connecting, Signalling}
         THEN EntersStateReady([d EXCEPT !.readyLock = TRUE])
         ELSE d

\* The code after the await of a playStream call that was suspended
AfterPlayWait(d, w) == Return(PlayerPlay(d, w.resource), "this")

RECURSIVE PlayAll(_, _)
PlayAll(d, ws) ==
    IF ws = <<>> THEN d ELSE PlayAll(AfterPlayWait(d, Head(ws)), Tail(ws))

\* The connection emits the event named after its new status: the waits
\* for that status are settled and the code after each await runs.  After a
\* wait for Connecting nothing follows; after the listener's wait for Ready,
\* its finally block; after playStream's wait, player.play.
Settle(d, newStatus) ==
    IF newStatus = Connecting THEN [d EXCEPT !.connectingWaits = <<>>]
    ELSE IF newStatus = Ready
    THEN LET d1 == [d EXCEPT
                      !.readyLock = IF d.readyWaits # <<>> THEN FALSE ELSE @,
                      !.readyWaits = <<>>,
                      !.playWaits = <<>>]
         IN  PlayAll(d1, d.playWaits)
    ELSE d

\* VoiceConnection's state setter: reaching Ready resets rejoinAttempts;
\* the state is stored; stateChange is emitted, and then, if the status
\* changed, the event named after the new status.
SetConnState(d, newState) ==
    LET old == d.conn.status
        d1 == [d EXCEPT
                 !.conn = [status |-> newState.status,
                           reason |-> newState.reason,
                           rejoinAttempts |->
                               IF newState.status = Ready THEN 0
                               ELSE @.rejoinAttempts],
                 !.connNotes = Append(@, <<old, newState.status>>)]
        d2 == ConnStateChange(d1, newState)
    IN  IF old # newState.status THEN Settle(d2, newState.status) ELSE d2

\* VoiceConnection.rejoin(): nothing on a destroyed connection; else, unless
\* the connection is Ready, one more rejoin attempt and back to Signalling,
\* or to Disconnected when the adapter is unavailable.
Rejoin(d) ==
    IF d.conn.status = Destroyed THEN Call(d, "conn.rejoin/destroyed")
    ELSE LET c == Call(d, "conn.rejoin")
             notReady == c.conn.status # Ready
             c1 == IF notReady THEN [c EXCEPT !.conn.rejoinAttempts = @ + 1]
                   ELSE c
         IN  IF ~c.adapterOk
             THEN SetConnState(c1, [status |-> Disconnected,
                                    reason |-> [reason |-> OtherReason,
                                                closeCode |-> 0]])
             ELSE IF notReady
                  THEN SetConnState(c1, [status |-> Signalling,
                                         reason |-> NoReason])
                  ELSE c1

---------------------------------------------------------------------------
(* playStream *)

\* A bug Unavailable could have: no check at all.
UnavailableUnchecked(resource) == FALSE

\* if (!resource) throw new Error("Audio resource is not available!")
Unavailable(resource) == resource = NoResource

\* A bug NotReady could have: playStream never waits.
NotReadyIgnored(d) == FALSE

\* this.voiceConnection.state.status !== VoiceConnectionStatus.Ready
NotReady(d) == d.conn.status # Ready

\* playStream(resource = this.audioResource) up to its await; arg is
\* NoResource when the caller passes nothing.
playStream(d, arg) ==
    LET resource == IF arg = NoResource THEN d.audioResource ELSE arg IN
    IF Unavailable(resource) THEN Throw(d, "Unavailable")
    ELSE LET d1 == IF d.audioResource = NoResource
                   THEN [d EXCEPT !.audioResource = resource]
                   ELSE d
         IN  IF NotReady(d1)
             THEN [d1 EXCEPT !.playWaits =
                      Append(@, [resource |-> resource,
                                 remaining |-> PlayTimeoutMs])]
             ELSE AfterPlayWait(d1, [resource |-> resource])

---------------------------------------------------------------------------
(* The code after each await, run when the wait times out or the delay ends *)

\* A bug AfterConnectingTimeout could have: the timeout is swallowed.
AfterConnectingTimeoutIgnored(d) == d

\* catch { this.voiceConnection.destroy(); } of the 4014 path
AfterConnectingTimeout(d) == Destroy(d)

\* this.voiceConnection.rejoin() after Util.wait
AfterBackoff(d) == Rejoin(d)

\* A bug AfterReadyTimeout could have: destroy() whatever the status.
AfterReadyTimeoutUnchecked(d) == [Destroy(d) EXCEPT !.readyLock = FALSE]

\* A bug AfterReadyTimeout could have: the lock is cleared on the way
\* through destroy() only, not in a finally.
AfterReadyTimeoutNoFinally(d) ==
    IF d.conn.status # Destroyed
    THEN [Destroy(d) EXCEPT !.readyLock = FALSE]
    ELSE d

\* catch { if (status !== Destroyed) destroy(); } finally { readyLock = false }
AfterReadyTimeout(d) ==
    LET d1 == IF d.conn.status # Destroyed THEN Destroy(d) ELSE d
    IN  [d1 EXCEPT !.readyLock = FALSE]

\* playStream's await rejects: the call fails with the timeout
AfterPlayTimeout(d) == Throw(d, "Aborted")

---------------------------------------------------------------------------
(* History *)

ApiOps ==
    {"createStream", "playStream", "pause", "resume", "end", "disconnect",
     "setVolume"}

\* The scenario: 0 constructed, 1 createStream called, 2 playStream() called,
\* 3 the player reported Playing, 4 the player then reported Idle; -1 once
\* any other call or player report has happened.  Reports of Buffering and
\* the connection's transitions are not steps of the scenario.
StageAfterOp(s, op) ==
    IF op.name \notin ApiOps THEN s
    ELSE IF s = 0 /\ op.name = "createStream" THEN 1
    ELSE IF s = 1 /\ op.name = "playStream" /\ op.arg = NoResource THEN 2
    ELSE -1

StageAfterNote(s, note) ==
    IF s = -1 \/ note[2] = Buffering THEN s
    ELSE IF s = 2 /\ note[2] = Playing THEN 3
    ELSE IF s = 3 /\ note[2] = Idle THEN 4
    ELSE -1

RECURSIVE StageAfterNotes(_, _)
StageAfterNotes(s, notes) ==
    IF notes = <<>> THEN s
    ELSE StageAfterNotes(StageAfterNote(s, Head(notes)), Tail(notes))

NextStage(d) == StageAfterNotes(StageAfterOp(scenario, d.op), d.notes)

Prefix(seq, n) == IF Len(seq) <= n THEN seq ELSE SubSeq(seq, 1, n)

NextEvents(d) ==
    IF NextStage(d) = -1 THEN <<>>
    ELSE Prefix(events \o d.emitted, MaxEvents)

Count(seq, x) == Cardinality({i \in 1..Len(seq) : seq[i] = x})

NextRejoins(d) ==
    IF \E i \in 1..Len(d.connNotes) : d.connNotes[i][2] = Ready THEN 0
    ELSE rejoinsSinceReady + Count(d.calls, "conn.rejoin")

\* A resource that has ended and that neither the dispatcher nor a suspended
\* playStream refers to is gone: its slot is free again.
Collect(d) ==
    [r \in ResourceIds |->
        IF d.res[r].stage = "ended" /\ r \notin Referenced(d)
        THEN FreeSlot ELSE d.res[r]]

Observed(d) ==
    [op |-> d.op, calls |-> d.calls, emitted |-> d.emitted,
     raised |-> d.raised, result |-> d.result, notes |-> d.notes,
     connNotes |-> d.connNotes]

\* The state after an operation that ended in snapshot d
Commit(d) ==
    /\ voiceConnection' = d.conn
    /\ audioPlayer' = d.player
    /\ audioResource' = d.audioResource
    /\ readyLock' = d.readyLock
    /\ resources' = Collect(d)
    /\ connectingWaits' = d.connectingWaits
    /\ backoffs' = d.backoffs
    /\ readyWaits' = d.readyWaits
    /\ playWaits' = d.playWaits
    /\ last' = Observed(d)
    /\ events' = NextEvents(d)
    /\ scenario' = NextStage(d)
    /\ rejoinsSinceReady' = NextRejoins(d)

Op(name, arg) == [name |-> name, arg |-> arg]

---------------------------------------------------------------------------
(* Construction *)

\* constructor(connection, channel): the fields, then
\* voiceConnection.subscribe(audioPlayer), which stores a state with the new
\* subscription and so notifies the stateChange listener with the status the
\* connection has.
Constructed(st) ==
    LET d0 == [ conn |-> [status |-> st, reason |-> NoReason,
                          rejoinAttempts |-> 0],
                player |-> [status |-> Idle, resource |-> NoResource],
                audioResource |-> NoResource, readyLock |-> FALSE,
                res |-> [r \in ResourceIds |-> FreeSlot],
                connectingWaits |-> <<>>, backoffs |-> <<>>,
                readyWaits |-> <<>>, playWaits |-> <<>>,
                op |-> Op("constructor", st), calls |-> <<>>,
                emitted |-> <<>>, raised |-> "none", result |-> "none",
                notes |-> <<>>, connNotes |-> <<>>,
                stopNow |-> TRUE, adapterOk |-> TRUE ]
    IN  SetConnState(d0, [status |-> st, reason |-> NoReason])

Init ==
    \E st \in {Signalling, Connecting, Ready} :
        LET d == Constructed(st) IN
        /\ voiceConnection = d.conn
        /\ audioPlayer = d.player
        /\ audioResource = d.audioResource
        /\ readyLock = d.readyLock
        /\ resources = d.res
        /\ connectingWaits = d.connectingWaits
        /\ backoffs = d.backoffs
        /\ readyWaits = d.readyWaits
        /\ playWaits = d.playWaits
        /\ last = Observed(d)
        /\ events = <<>>
        /\ scenario = 0
        /\ rejoinsSinceReady = 0

---------------------------------------------------------------------------
(* Calls of the dispatcher's operations *)

CallCreateStream ==
    /\ UnusedIds(Begin(Op("createStream", 0), TRUE, TRUE)) # {}
    /\ Commit(createStream(Begin(Op("createStream", 0), TRUE, TRUE)))

\* The caller passes nothing, or a resource it holds that has not ended.
CallPlayStream ==
    \E arg \in {NoResource}
                 \cup {r \in ResourceIds :
                          resources[r].stage \in {"fresh", "loaded"}} :
        /\ voiceConnection.status # Ready =>
               \/ Len(playWaits) < MaxPlayWaits
               \/ arg = NoResource /\ audioResource = NoResource
        /\ Commit(playStream(Begin(Op("playStream", arg), TRUE, TRUE), arg))

CallPause == Commit(pause(Begin(Op("pause", 0), TRUE, TRUE)))

CallResume == Commit(resume(Begin(Op("resume", 0), TRUE, TRUE)))

CallEnd ==
    \E stopNow \in BOOLEAN :
        Commit(end(Begin(Op("end", 0), stopNow, TRUE)))

CallDisconnect ==
    \E stopNow \in BOOLEAN :
        Commit(disconnect(Begin(Op("disconnect", 0), stopNow, TRUE)))

CallSetVolume ==
    \E value \in VolumeInputs :
        Commit(setVolume(Begin(Op("setVolume", value), TRUE, TRUE), value))

---------------------------------------------------------------------------
(* The connection's own transitions *)

\* The transitions the voice transport makes: a destroyed connection makes
\* none; Ready is reached from Connecting; a websocket close needs the
\* websocket of a Connecting or Ready connection.  A state stored without a
\* change of status (a new subscription, a new reason) notifies as well.
TransportStates ==
    {[status |-> st, reason |-> NoReason] :
        st \in {Signalling, Connecting, Ready}}
        \cup {[status |-> Disconnected, reason |-> r] : r \in DisconnectReasons}

TransportMay(newState) ==
    /\ voiceConnection.status # Destroyed
    /\ newState.status = Ready =>
           voiceConnection.status \in {Connecting, Ready}
    /\ newState.reason.reason = WebSocketClose =>
           voiceConnection.status \in {Connecting, Ready}

\* A listener is suspended only while the model has room for it.
RoomFor(newState) ==
    newState.status = Disconnected =>
        IF IsMoved(newState)
        THEN Len(connectingWaits) < MaxConnectingWaits
        ELSE voiceConnection.rejoinAttempts < RejoinLimit =>
                 Len(backoffs) < MaxBackoffs

ConnTransitionTo(states) ==
    \E newState \in states, stopNow \in BOOLEAN :
        /\ TransportMay(newState)
        /\ RoomFor(newState)
        /\ Commit(SetConnState(
               Begin(Op("connTransition", newState), stopNow, TRUE),
               newState))

ConnTransition == ConnTransitionTo(TransportStates)

\* The transitions that suspend no listener in a backoff delay: every status
\* but a Disconnected that is retried.
MovedOrConnected ==
    {s \in TransportStates : s.status = Disconnected => IsMoved(s)}

ConnTransitionUnretried == ConnTransitionTo(MovedOrConnected)

---------------------------------------------------------------------------
(* Timers *)

Remove(seq, i) == SubSeq(seq, 1, i - 1) \o SubSeq(seq, i + 1, Len(seq))

\* The 5-second wait for Connecting times out.
ConnectingWaitTimeout ==
    \E stopNow \in BOOLEAN :
        /\ connectingWaits # <<>>
        /\ Head(connectingWaits) = 0
        /\ Commit(AfterConnectingTimeout(
               [Begin(Op("connectingWaitTimeout", 0), stopNow, TRUE)
                   EXCEPT !.connectingWaits = Tail(@)]))

\* A backoff delay ends.
BackoffDone ==
    \E i \in 1..Len(backoffs), stopNow \in BOOLEAN, adapterOk \in BOOLEAN :
        /\ backoffs[i] = 0
        /\ Commit(AfterBackoff(
               [Begin(Op("backoffDone", 0), stopNow, adapterOk)
                   EXCEPT !.backoffs = Remove(@, i)]))

\* The listener's 20-second wait for Ready times out.
ReadyWaitTimeout ==
    \E stopNow \in BOOLEAN :
        /\ readyWaits # <<>>
        /\ Head(readyWaits) = 0
        /\ Commit(AfterReadyTimeout(
               [Begin(Op("readyWaitTimeout", 0), stopNow, TRUE)
                   EXCEPT !.readyWaits = Tail(@)]))

\* playStream's 20-second wait for Ready times out.
PlayWaitTimeout ==
    /\ playWaits # <<>>
    /\ Head(playWaits).remaining = 0
    /\ Commit(AfterPlayTimeout(
           [Begin(Op("playWaitTimeout", 0), TRUE, TRUE)
               EXCEPT !.playWaits = Tail(@)]))

Due ==
    \/ \E i \in 1..Len(connectingWaits) : connectingWaits[i] = 0
    \/ \E i \in 1..Len(backoffs) : backoffs[i] = 0
    \/ \E i \in 1..Len(readyWaits) : readyWaits[i] = 0
    \/ \E i \in 1..Len(playWaits) : playWaits[i].remaining = 0

Pending ==
    connectingWaits # <<>> \/ backoffs # <<>> \/ readyWaits # <<>>
        \/ playWaits # <<>>

Elapse(seq) == [i \in 1..Len(seq) |-> seq[i] - TickMs]

\* TickMs pass: no timer is overdue, and every pending one comes closer.
Tick ==
    /\ Pending
    /\ ~Due
    /\ Commit([Begin(Op("tick", 0), TRUE, TRUE) EXCEPT
                 !.connectingWaits = Elapse(@),
                 !.backoffs = Elapse(@),
                 !.readyWaits = Elapse(@),
                 !.playWaits =
                     [i \in 1..Len(@) |->
                         [@[i] EXCEPT !.remaining = @ - TickMs]]])

---------------------------------------------------------------------------
(* The player's own transitions *)

\* The stream becomes readable: Buffering -> Playing.
PlayerReady ==
    /\ audioPlayer.status = Buffering
    /\ Commit(SetPlayerState(Begin(Op("playerReady", 0), TRUE, TRUE),
                             Playing, audioPlayer.resource))

\* The stream ends or fails: any status but Idle -> Idle.
PlayerFinish ==
    /\ audioPlayer.status # Idle
    /\ Commit(SetPlayerState(Begin(Op("playerFinish", 0), TRUE, TRUE),
                             Idle, NoResource))

\* No connection can take the audio: Playing -> AutoPaused.
PlayerAutoPause ==
    /\ audioPlayer.status = Playing
    /\ voiceConnection.status # Ready
    /\ Commit(SetPlayerState(Begin(Op("playerAutoPause", 0), TRUE, TRUE),
                             AutoPaused, audioPlayer.resource))

\* The connection can take the audio again: AutoPaused -> Playing.
PlayerAutoResume ==
    /\ audioPlayer.status = AutoPaused
    /\ voiceConnection.status = Ready
    /\ Commit(SetPlayerState(Begin(Op("playerAutoResume", 0), TRUE, TRUE),
                             Playing, audioPlayer.resource))

\* The player stores a state with the status it has.
PlayerStateUpdate ==
    Commit(SetPlayerState(Begin(Op("playerStateUpdate", 0), TRUE, TRUE),
                          audioPlayer.status, audioPlayer.resource))

\* A frame of the resource is played.
PlayerFrame ==
    /\ audioPlayer.status = Playing
    /\ resources[audioPlayer.resource].playbackDuration < MaxFrames
    /\ Commit([Begin(Op("playerFrame", 0), TRUE, TRUE) EXCEPT
                 !.res[audioPlayer.resource].playbackDuration = @ + 1])

---------------------------------------------------------------------------
(* Specification *)

Next ==
    \/ CallCreateStream
    \/ CallPlayStream
    \/ CallPause
    \/ CallResume
    \/ CallEnd
    \/ CallDisconnect
    \/ CallSetVolume
    \/ ConnTransition
    \/ ConnectingWaitTimeout
    \/ BackoffDone
    \/ ReadyWaitTimeout
    \/ PlayWaitTimeout
    \/ Tick
    \/ PlayerReady
    \/ PlayerFinish
    \/ PlayerAutoPause
    \/ PlayerAutoResume
    \/ PlayerStateUpdate
    \/ PlayerFrame

Spec == Init /\ [][Next]_vars

(***************************************************************************)
(* The listeners of the connection read and write the connection, the      *)
(* lock and their own waits, and reach the player only through stop(); the *)
(* playback operations read the connection's status and never write the    *)
(* connection.  Each half is therefore also explored on its own, with the  *)
(* other half reduced to the steps that can affect it.                     *)
(***************************************************************************)

\* The connection, its listeners and disconnect()
NextConnection ==
    \/ ConnTransition
    \/ ConnectingWaitTimeout
    \/ BackoffDone
    \/ ReadyWaitTimeout
    \/ Tick
    \/ CallDisconnect

SpecConnection == Init /\ [][NextConnection]_vars

\* The same, with the event loop's timers: time passes while a timer is
\* pending, and a timer that has run out fires.
SpecConnectionFair ==
    /\ SpecConnection
    /\ WF_vars(Tick)
    /\ WF_vars(ConnectingWaitTimeout)
    /\ WF_vars(BackoffDone)
    /\ WF_vars(ReadyWaitTimeout)

\* Playback, over a connection that connects, is moved and is destroyed
NextPlayback ==
    \/ CallCreateStream
    \/ CallPlayStream
    \/ CallPause
    \/ CallResume
    \/ CallEnd
    \/ CallDisconnect
    \/ ConnTransitionUnretried
    \/ ConnectingWaitTimeout
    \/ ReadyWaitTimeout
    \/ PlayWaitTimeout
    \/ Tick
    \/ PlayerReady
    \/ PlayerFinish
    \/ PlayerAutoPause
    \/ PlayerAutoResume
    \/ PlayerStateUpdate
    \/ PlayerFrame

SpecPlayback == Init /\ [][NextPlayback]_vars

\* The end of a connection under a player in any status: playback without
\* end(), frames and repeated states, and with the player's audio cycle, in
\* which a player that is Playing while no connection can take its audio is
\* auto-paused.
NextTeardown ==
    \/ CallCreateStream
    \/ CallPlayStream
    \/ CallPause
    \/ CallResume
    \/ CallDisconnect
    \/ ConnTransitionUnretried
    \/ ConnectingWaitTimeout
    \/ ReadyWaitTimeout
    \/ PlayWaitTimeout
    \/ Tick
    \/ PlayerReady
    \/ PlayerFinish
    \/ PlayerAutoPause
    \/ PlayerAutoResume

SpecTeardown == Init /\ [][NextTeardown]_vars /\ WF_vars(PlayerAutoPause)

\* The volume of the resources, over a connection that stays connected
NextVolume ==
    \/ CallCreateStream
    \/ CallPlayStream
    \/ CallSetVolume
    \/ ConnTransitionTo({s \in TransportStates : s.status # Disconnected})
    \/ ReadyWaitTimeout
    \/ PlayWaitTimeout
    \/ Tick
    \/ PlayerReady
    \/ PlayerFinish

SpecVolume == Init /\ [][NextVolume]_vars

TypeOK ==
    /\ voiceConnection.status \in ConnStatuses
    /\ voiceConnection.rejoinAttempts \in 0..(RejoinLimit + MaxBackoffs)
    /\ audioPlayer.status \in PlayerStatuses
    /\ audioPlayer.resource \in {NoResource} \cup ResourceIds
    /\ (audioPlayer.status = Idle) = (audioPlayer.resource = NoResource)
    /\ audioResource \in {NoResource} \cup ResourceIds
    /\ readyLock \in BOOLEAN
    /\ Len(backoffs) <= MaxBackoffs
    /\ Len(connectingWaits) <= MaxConnectingWaits
    /\ Len(playWaits) <= MaxPlayWaits
    /\ scenario \in -1..4

---------------------------------------------------------------------------
(* Properties *)

LastOp(name) == last.op.name = name
LastOp_(name) == last'.op.name = name
Has(seq, x) == \E i \in 1..Len(seq) : seq[i] = x
IsPrefix(s, q) == Len(s) <= Len(q) /\ \A i \in 1..Len(s) : s[i] = q[i]
RejoinRequested(calls) ==
    Has(calls, "conn.rejoin") \/ Has(calls, "conn.rejoin/destroyed")

\* The step notified the listener of a Disconnected state, 4014 or not
OrdinaryDisconnect_ ==
    /\ LastOp_("connTransition")
    /\ last'.op.arg.status = Disconnected
    /\ ~(last'.op.arg.reason.reason = WebSocketClose
            /\ last'.op.arg.reason.closeCode = 4014)
MovedDisconnect_ ==
    /\ LastOp_("connTransition")
    /\ last'.op.arg.status = Disconnected
    /\ last'.op.arg.reason.reason = WebSocketClose
    /\ last'.op.arg.reason.closeCode = 4014

\* C1: on an ordinary (non-4014) Disconnected with the rejoin counter c in
\* 0..4 the listener calls nothing and suspends for (c + 1) * 5000 ms; that
\* delay runs down only with the clock, and rejoin() is requested exactly
\* when a delay has run out, as the first call of that step.  With c >= 5
\* the listener destroys the connection in the same step, starts no delay
\* and requests no rejoin.
C1_Step ==
    /\ OrdinaryDisconnect_ =>
           IF voiceConnection.rejoinAttempts <= 4
           THEN /\ backoffs' =
                       Append(backoffs,
                              (voiceConnection.rejoinAttempts + 1) * 5000)
                /\ last'.calls = <<>>
                /\ voiceConnection'.status = Disconnected
           ELSE /\ backoffs' = backoffs
                /\ last'.calls # <<>> /\ last'.calls[1] = "conn.destroy"
                /\ ~RejoinRequested(last'.calls)
                /\ voiceConnection'.status = Destroyed
    /\ LastOp_("backoffDone") =>
           /\ \E i \in 1..Len(backoffs) :
                  /\ backoffs[i] = 0
                  /\ IsPrefix(Remove(backoffs, i), backoffs')
           /\ RejoinRequested(<<last'.calls[1]>>)
    /\ RejoinRequested(last'.calls) => LastOp_("backoffDone")
    /\ LastOp_("tick") =>
           backoffs' = [i \in 1..Len(backoffs) |-> backoffs[i] - 5000]
    /\ ~LastOp_("tick") /\ ~LastOp_("backoffDone") =>
           IsPrefix(backoffs, backoffs')
    /\ \A i \in 1..Len(backoffs') : backoffs'[i] >= 0

C1_BackoffThenRejoin == [][C1_Step]_vars

\* C1's case: the counter reached 5 through five delayed rejoins, and the
\* next ordinary Disconnected destroyed the connection at once.
C1_Witness ==
    /\ LastOp("connTransition")
    /\ last.op.arg.status = Disconnected
    /\ last.op.arg.reason.reason # WebSocketClose
    /\ voiceConnection.rejoinAttempts >= 5
    /\ voiceConnection.status = Destroyed
    /\ last.calls[1] = "conn.destroy"

\* C2: on a Disconnected with websocket close code 4014 the listener, with
\* any rejoin counter, starts no backoff delay and calls nothing; it only
\* waits 5000 ms for Connecting.  The wait ends either when the connection
\* enters Connecting, and then nothing is called, or when the 5000 ms have
\* passed, and then the listener calls destroy() and the connection is
\* Destroyed; no rejoin is requested in either case.
C2_Step ==
    /\ MovedDisconnect_ =>
           /\ backoffs' = backoffs
           /\ connectingWaits' = Append(connectingWaits, 5000)
           /\ last'.calls = <<>>
           /\ voiceConnection'.status = Disconnected
    /\ LastOp_("connectingWaitTimeout") =>
           /\ connectingWaits # <<>> /\ Head(connectingWaits) = 0
           /\ connectingWaits' = Tail(connectingWaits)
           /\ last'.calls[1] = "conn.destroy"
           /\ ~RejoinRequested(last'.calls)
           /\ backoffs' = backoffs
           /\ voiceConnection'.status = Destroyed
    /\ (connectingWaits # <<>> /\ voiceConnection.status # Connecting
            /\ voiceConnection'.status = Connecting) =>
           /\ connectingWaits' = <<>>
           /\ last'.calls = <<>>
    /\ LastOp_("tick") =>
           connectingWaits' =
               [i \in 1..Len(connectingWaits) |-> connectingWaits[i] - 5000]
    /\ (connectingWaits' # connectingWaits) =>
           \/ MovedDisconnect_
           \/ LastOp_("connectingWaitTimeout")
           \/ LastOp_("tick")
           \/ voiceConnection.status # Connecting
                  /\ voiceConnection'.status = Connecting

C2_MovedNeverBacksOff == [][C2_Step]_vars

\* C2's case: a 4014 disconnect arrives when the counter has reached 5.
C2_Witness ==
    /\ LastOp("connTransition")
    /\ last.op.arg.status = Disconnected
    /\ last.op.arg.reason.closeCode = 4014
    /\ voiceConnection.rejoinAttempts >= 5
    /\ connectingWaits = <<5000>>

\* The dispatcher's fields and everything it drives
programVars ==
    << voiceConnection, audioPlayer, audioResource, readyLock, resources,
       connectingWaits, backoffs, readyWaits, playWaits >>

\* get streamTime() in the current state
StreamTime == streamTime(Begin(Op("streamTime", 0), TRUE, TRUE))

\* C3: whenever the player notifies a transition into Idle from Buffering or
\* Playing, the step emits exactly one finish and leaves the dispatcher
\* without a current resource; a notification Idle -> Idle emits nothing and
\* leaves the current resource as it was.
C3_Step ==
    \A i \in 1..Len(last'.notes) :
        /\ (last'.notes[i][2] = Idle
                /\ last'.notes[i][1] \in {Buffering, Playing}) =>
               /\ audioResource' = NoResource
               /\ last'.emitted = <<"finish">>
        /\ last'.notes[i] = <<Idle, Idle>> =>
               /\ audioResource' = audioResource
               /\ last'.emitted = <<>>

C3_FinishOnIdle == [][C3_Step]_vars

\* C3's case: a playing resource came to its end.
C3_Witness ==
    /\ LastOp("playerFinish")
    /\ last.notes = << <<Playing, Idle>> >>
    /\ last.emitted = <<"finish">>
    /\ audioResource = NoResource

\* C4 as claimed: a step in which the player notifies a transition from
\* Paused or AutoPaused into Idle emits no finish and keeps the current
\* resource.
C4_Step ==
    \A i \in 1..Len(last'.notes) :
        (last'.notes[i][2] = Idle
             /\ last'.notes[i][1] \in {Paused, AutoPaused}) =>
            /\ ~Has(last'.emitted, "finish")
            /\ audioResource' = audioResource

C4_NoFinishWhilePaused == [][C4_Step]_vars

\* C5: in the scenario construct, createStream, playStream(), the player
\* reports Playing, the player reports Idle, the events emitted up to the
\* report of Playing are exactly one start, and up to the report of Idle
\* exactly one start followed by one finish; from then on streamTime is 0.
C5_PlayThrough ==
    /\ scenario = 3 => events = <<"start">>
    /\ scenario = 4 => events = <<"start", "finish">> /\ StreamTime = 0

\* C5's case: the scenario was played through to the report of Idle.
C5_Witness ==
    /\ scenario = 4
    /\ last.notes = << <<Playing, Idle>> >>

\* C6: playStream() without an argument, called while there is no current
\* resource, fails as unavailable, calls nothing, suspends nothing and
\* changes nothing, whatever the connection's status.
C6_Step ==
    (/\ LastOp_("playStream")
     /\ last'.op.arg = NoResource
     /\ audioResource = NoResource) =>
        /\ last'.raised = "Unavailable"
        /\ last'.calls = <<>>
        /\ UNCHANGED programVars

C6_UnavailableChangesNothing == [][C6_Step]_vars

\* C6's case: the call fails on a Ready connection, where nothing but the
\* missing resource stands in the way of playing, outside the play-through
\* scenario.
C6_Witness ==
    /\ LastOp("playStream")
    /\ last.raised = "Unavailable"
    /\ voiceConnection.status = Ready
    /\ scenario = -1

\* C7: player.play is called only in steps that end with the connection
\* Ready.  A playStream call with a resource calls player.play at once on a
\* Ready connection and otherwise only suspends, for 20000 ms; the step in
\* which the connection becomes Ready calls player.play once for every
\* suspended call; a suspended call whose 20000 ms have passed fails with
\* the timeout and calls nothing.
C7_Step ==
    /\ Has(last'.calls, "player.play") => voiceConnection'.status = Ready
    /\ (LastOp_("playStream") /\ last'.raised # "Unavailable") =>
           IF voiceConnection.status = Ready
           THEN /\ last'.calls = <<"player.play">>
                /\ playWaits' = playWaits
           ELSE /\ last'.calls = <<>>
                /\ Len(playWaits') = Len(playWaits) + 1
                /\ IsPrefix(playWaits, playWaits')
                /\ playWaits'[Len(playWaits')].remaining = 20000
    /\ (voiceConnection.status # Ready /\ voiceConnection'.status = Ready) =>
           /\ Count(last'.calls, "player.play") = Len(playWaits)
           /\ playWaits' = <<>>
    /\ LastOp_("playWaitTimeout") =>
           /\ Head(playWaits).remaining = 0
           /\ playWaits' = Tail(playWaits)
           /\ last'.raised = "Aborted"
           /\ last'.calls = <<>>
    /\ LastOp_("tick") =>
           /\ Len(playWaits') = Len(playWaits)
           /\ \A i \in 1..Len(playWaits) :
                  /\ playWaits[i].remaining > 0
                  /\ playWaits'[i].remaining = playWaits[i].remaining - 5000
                  /\ playWaits'[i].resource = playWaits[i].resource
    /\ (playWaits' # playWaits) =>
           \/ LastOp_("playStream")
           \/ LastOp_("playWaitTimeout")
           \/ LastOp_("tick")
           \/ voiceConnection.status # Ready
                  /\ voiceConnection'.status = Ready

C7_PlayOnlyWhenReady == [][C7_Step]_vars

\* C7's case: a suspended playStream call resumed when the connection
\* became Ready.
C7_Witness ==
    /\ LastOp("connTransition")
    /\ last.op.arg.status = Ready
    /\ last.calls = <<"player.play">>
    /\ audioPlayer.status = Buffering

\* C8: disconnect() raises nothing, whatever the connection's status; the
\* connection is Destroyed afterwards; called on a Destroyed connection it
\* changes nothing.
C8_Step ==
    LastOp_("disconnect") =>
        /\ last'.raised = "none"
        /\ voiceConnection'.status = Destroyed
        /\ voiceConnection.status = Destroyed => UNCHANGED programVars

C8_DisconnectNeverRaises == [][C8_Step]_vars

\* C8's case: disconnect() on a connection that is Destroyed already.
C8_Witness ==
    /\ LastOp("disconnect")
    /\ last.connNotes = <<>>
    /\ last.calls = <<"conn.destroy">>
    /\ voiceConnection.status = Destroyed

\* C9 as claimed: setVolume(v) answers true, and sets the current resource's
\* volume, exactly when there is a current resource and v is a finite number
\* that is not negative; otherwise it answers false and sets nothing.
C9_SetVolume ==
    LastOp("setVolume") =>
        IF /\ audioResource # NoResource
           /\ last.op.arg[1] = "num"
           /\ last.op.arg[2] >= 0
        THEN /\ last.result = "true"
             /\ resources[audioResource].volume = last.op.arg
        ELSE /\ last.result = "false"
             /\ last.calls = <<>>

\* C10 as claimed: at most 5 rejoin requests reach a live connection between
\* construction, or the last Ready, and the next Ready.
C10_AtMostFiveRejoins == rejoinsSinceReady <= 5

\* C11: with timers that fire, a connection that from some point on never
\* reaches Ready is eventually Destroyed: it does not stay Disconnected,
\* Connecting or Signalling forever, whatever the transport does (rejoins
\* answered by further disconnects, attempts that never complete, a 4014
\* disconnect never followed by Connecting).
C11_EventuallyDestroyed ==
    \/ []<>(voiceConnection.status = Ready)
    \/ <>(voiceConnection.status = Destroyed)

\* C11's case: a rejoin attempt never completed, and the wait for Ready that
\* it left pending destroyed the connection.
C11_Witness ==
    /\ LastOp("readyWaitTimeout")
    /\ voiceConnection.rejoinAttempts > 0
    /\ last.connNotes = << <<Signalling, Destroyed>> >>
    /\ voiceConnection.status = Destroyed

\* The step notified the listener of a Connecting or Signalling state, as
\* the transport's transition or as the answer to rejoin()
ConnectingOrSignalling_ ==
    \E i \in 1..Len(last'.connNotes) :
        last'.connNotes[i][2] \in {Connecting, Signalling}

\* C12: at most one of the listener's waits for Ready is pending at any
\* time, and readyLock is true exactly while one is pending.  A Connecting or
\* Signalling state notified while readyLock is set starts no wait, leaves
\* the pending one and the lock as they are and calls nothing (the only call
\* of such a step is the rejoin() that caused the notification); notified
\* while readyLock is clear it sets the lock and starts one wait of 20000 ms.
C12_Step ==
    /\ Len(readyWaits) <= 1 /\ Len(readyWaits') <= 1
    /\ readyLock = (readyWaits # <<>>)
    /\ readyLock' = (readyWaits' # <<>>)
    /\ (ConnectingOrSignalling_ /\ readyLock) =>
           /\ readyWaits' = readyWaits
           /\ readyLock'
           /\ \A i \in 1..Len(last'.calls) :
                  last'.calls[i] = "conn.rejoin" /\ LastOp_("backoffDone")
    /\ (ConnectingOrSignalling_ /\ ~readyLock) =>
           /\ readyWaits' = <<20000>>
           /\ readyLock'
    /\ (Len(readyWaits') > Len(readyWaits)) => ConnectingOrSignalling_

C12_OneWaitForReady == [][C12_Step]_vars

\* C12's case: Connecting or Signalling is notified while a wait for Ready
\* that an earlier notification started is still pending.
C12_Witness ==
    /\ LastOp("connTransition")
    /\ last.op.arg.status \in {Connecting, Signalling}
    /\ readyLock
    /\ readyWaits # <<>>
    /\ Head(readyWaits) < 20000

\* C13: with timers that fire, readyLock, whenever set, is cleared again.
\* It is cleared in the step in which the connection becomes Ready and, at
\* the latest, in the step in which the 20000 ms run out, whether that step
\* destroys the connection or finds it destroyed; a Connecting or Signalling
\* notified after that finds the lock clear and starts a new wait.
C13_Step ==
    /\ (readyLock /\ voiceConnection.status # Ready
            /\ voiceConnection'.status = Ready) => ~readyLock'
    /\ LastOp_("readyWaitTimeout") => readyLock /\ ~readyLock'
    /\ (~readyLock /\ LastOp_("connTransition")
            /\ last'.op.arg.status \in {Connecting, Signalling}) =>
           readyWaits' = <<20000>>

C13_Released == (readyLock ~> ~readyLock) /\ [][C13_Step]_vars

\* C13's case: the lock is cleared by the timeout of a wait during which the
\* connection was destroyed.
C13_Witness ==
    /\ LastOp("readyWaitTimeout")
    /\ last.connNotes = <<>>
    /\ voiceConnection.status = Destroyed
    /\ ~readyLock

\* C14: the step in which the listener's 20000 ms wait for Ready runs out
\* calls destroy() exactly when the connection is not Destroyed at that
\* moment, calls it once, raises nothing and leaves the connection Destroyed;
\* the step in which the wait ends because the connection became Ready
\* calls no destroy().
C14_Step ==
    /\ LastOp_("readyWaitTimeout") =>
           /\ Head(readyWaits) = 0
           /\ Count(last'.calls, "conn.destroy") =
                  (IF voiceConnection.status # Destroyed THEN 1 ELSE 0)
           /\ last'.raised = "none"
           /\ voiceConnection'.status = Destroyed
    /\ (readyWaits # <<>> /\ voiceConnection.status # Ready
            /\ voiceConnection'.status = Ready) =>
           /\ ~Has(last'.calls, "conn.destroy")
           /\ readyWaits' = <<>>

C14_DestroyUnlessDestroyed == [][C14_Step]_vars

\* C14's case: disconnect() destroyed the connection during the wait, and
\* the timeout found it Destroyed and called nothing.
C14_Witness ==
    /\ LastOp("readyWaitTimeout")
    /\ last.calls = <<>>
    /\ last.raised = "none"
    /\ voiceConnection.status = Destroyed
    /\ readyWaits = <<>>

\* C15: every step in which the connection becomes Destroyed, whatever
\* destroyed it (disconnect(), the 5000 ms or the 20000 ms timeout) and
\* whatever the player's status, the lock and the pending waits, calls
\* player.stop(), once and after destroy(); the player is Idle after the
\* step, or, when stop() is deferred, in the status it had, and an Idle
\* player stays Idle.  With the player's audio cycle
\* running, a player that is Playing while the connection is Destroyed
\* does not stay Playing.
C15_Step ==
    (voiceConnection.status # Destroyed
        /\ voiceConnection'.status = Destroyed) =>
        /\ Count(last'.calls, "conn.destroy") = 1
        /\ Count(last'.calls, "player.stop") = 1
        /\ last'.calls[Len(last'.calls)] = "player.stop"
        /\ audioPlayer.status = Idle => audioPlayer'.status = Idle
        /\ audioPlayer'.status \in {Idle, audioPlayer.status}

C16_PlayedIsCurrent ==
    (/\ LastOp("playStream")
     /\ last.op.arg # NoResource
     /\ last.calls = <<"player.play">>
     /\ last.raised = "none") =>
        audioResource = last.op.arg

\* C17 as claimed: no step of a connection listener (a notification, the
\* end of the 5000 ms wait, of a backoff delay or of the 20000 ms wait)
\* calls destroy() on a connection that is Destroyed, and so none ends in
\* the error destroy() raises then.
C17_Step ==
    ~LastOp_("disconnect") =>
        /\ voiceConnection.status = Destroyed =>
               ~Has(last'.calls, "conn.destroy")
        /\ last'.raised # "AlreadyDestroyed"

C17_NoSecondDestroy == [][C17_Step]_vars

\* C18 as claimed: rejoin() is requested only on a connection that is
\* Disconnected at that moment; a backoff delay that ends after the
\* connection became Ready, Connecting, Signalling or Destroyed requests
\* nothing.
C18_Step ==
    LastOp_("backoffDone") =>
        IF voiceConnection.status = Disconnected
        THEN last'.calls[1] = "conn.rejoin"
        ELSE last'.calls = <<>>

C18_RejoinOnlyDisconnected == [][C18_Step]_vars

\* C19 as claimed: whenever the player is not Idle, which only a playStream
\* call that reached player.play brings about, the dispatcher has a current
\* resource.
C19_PlayingHasResource ==
    audioPlayer.status # Idle => audioResource # NoResource

\* C20 as claimed: a resource's start is emitted by the step in which the
\* player first plays it; a step in which the player returns to Playing from
\* Paused (resume()) or from AutoPaused emits no further start.
C20_Step ==
    \A i \in 1..Len(last'.notes) :
        (last'.notes[i][1] \in {Paused, AutoPaused}
             /\ last'.notes[i][2] = Playing) =>
            ~Has(last'.emitted, "start")

C20_OneStartPerResource == [][C20_Step]_vars

====
